---- MODULE Spec2Model ----
(***************************************************************************)
(* Model of src/src/main.rs: a KZG commitment to a bit vector is computed  *)
(* twice, once as the advice-column commitment that create_proof writes    *)
(* into the proof transcript (read back by extract_commitments) and once   *)
(* directly with commit_lagrange, and the two are compared with            *)
(* assert_eq!.                                                             *)
(*                                                                         *)
(* The curve is scaled down and kept in shape: bn256 G1 is y^2 = x^3 + 3   *)
(* over Fq with generator (1, 2) and prime order r; here the same equation *)
(* over F_19, whose group has prime order 13 and is generated by (1, 2).   *)
(* Scalars are integers mod 13, coordinates integers mod 19.  A compressed *)
(* point takes ReprLen bytes (32 in bn256): the x coordinate and the sign  *)
(* of y.                                                                   *)
(*                                                                         *)
(* A panic (expect, unwrap, assert!, index out of bounds) ends the run:    *)
(* outcome.kind = "panic" and outcome.cause names the failed call.         *)
(***************************************************************************)
EXTENDS Integers, Sequences, FiniteSets, TLC

VARIABLES
    pc,                 \* the statement of main (or of the harness) to run next
    k,                  \* main.rs:122  circuit size exponent
    bitvector,          \* main.rs:125  witness given to the circuit
    fresh_bitvector,    \* main.rs:173  witness given to the direct path
    params,             \* main.rs:135  ParamsKZG: the Lagrange basis g_lagrange
    points,             \* the points the prover appended to the transcript
    tail,               \* the proof data the prover wrote after those points
    transcript,         \* main.rs:142  the bytes of the Blake2bWrite buffer
    proof,              \* main.rs:156  the finalized proof bytes
    num_advice_columns, \* main.rs:160  declared count given to extraction
    commitments,        \* main.rs:161  result of extract_commitments
    halo2_commitment,   \* main.rs:164  commitments[0]
    poly,               \* main.rs:180  the Lagrange polynomial (evaluations)
    commitment,         \* main.rs:189  result of commit_lagrange (Jacobian)
    plain_commitment,   \* main.rs:195  result of from_xy(..).unwrap()
    outcome             \* how the run ended

vars == <<pc, k, bitvector, fresh_bitvector, params, points, tail, transcript,
          proof, num_advice_columns, commitments, halo2_commitment, poly,
          commitment, plain_commitment, outcome>>

----------------------------------------------------------------------------
(* Field and group primitives (halo2curves bn256, scaled).                 *)

\* Base field modulus: coordinates are integers mod P.
P == 19

\* Group order = scalar field modulus (Fr).
Q == 13

\* Curve constant b of y^2 = x^3 + b.
CurveB == 3

\* Fr::S: the scalar field has a 2^S-th root of unity, so k <= S.
TwoAdicity == 2

\* Fr::ROOT_OF_UNITY: an element of order 2^S in Fr (5^2 = -1 mod 13).
RootOfUnity == 5

\* Size in bytes of a compressed point (G1Affine::Repr).
ReprLen == 2

\* Bound on the number of bytes the prover writes after the commitments.
MaxTail == 2

\* Bound on the number of points written in the transcript harness.
MaxPoints == 2

\* Bound on the length of keys and evaluation vectors in the commit harness.
MaxLen == 2

RECURSIVE Pow(_, _, _)
Pow(a, e, m) == IF e = 0 THEN 1 % m ELSE (a * Pow(a, e - 1, m)) % m

\* Inverse in Fr (Fermat); 0 is mapped to 0 as by Field::invert().unwrap_or(0).
InvFr(a) == Pow(a % Q, Q - 2, Q)

\* Inverse in Fq.
InvFq(a) == Pow(a % P, P - 2, P)

\* The affine identity of halo2curves is the pair (0, 0).
Identity == <<0, 0>>

\* The group: G1[i + 1] = i * (1, 2) on y^2 = x^3 + 3 over F_19.
G1 == << <<0, 0>>, <<1, 2>>, <<14, 12>>, <<11, 2>>, <<7, 17>>, <<3, 12>>,
         <<2, 12>>, <<2, 7>>, <<3, 7>>, <<7, 2>>, <<11, 17>>, <<14, 7>>,
         <<1, 17>> >>

Generator == G1[2]

DLog(pt) == CHOOSE i \in 0..(Q - 1) : G1[i + 1] = pt

\* Group addition and scalar multiplication of affine points.
Add(a, b) == G1[((DLog(a) + DLog(b)) % Q) + 1]

Mul(s, a) == G1[((s * DLog(a)) % Q) + 1]

\* CurveAffine::is_on_curve: y^2 - x^3 = b, or the identity (0, 0).
is_on_curve(pt) ==
    \/ (pt[2] * pt[2] - pt[1] * pt[1] * pt[1] - CurveB) % P = 0
    \/ pt = Identity

\* A Jacobian representative <<X, Y, Z>> of an affine point: (x Z^2, y Z^3, Z);
\* the identity is (0, 1, 0).
Jacobian(pt, z) ==
    IF pt = Identity THEN <<0, 1, 0>>
    ELSE <<(pt[1] * z * z) % P, (pt[2] * z * z * z) % P, z>>

\* Curve::to_affine: (X / Z^2, Y / Z^3), the identity for Z = 0.
to_affine(j) ==
    IF j[3] = 0 THEN Identity
    ELSE LET zi == InvFq(j[3])
         IN  <<(j[1] * zi * zi) % P, (j[2] * zi * zi * zi) % P>>

\* The Z coordinates a multi-scalar multiplication may return for a point
\* other than the identity: Z depends on the additions the MSM implementation
\* performed, so every nonzero Z is allowed.
JacobianZ == 1..(P - 1)

\* VariableBaseMSM::msm / MsmAccel::msm: sum of scalars[i] * bases[i] over the
\* first Len(scalars) bases.
RECURSIVE msm(_, _)
msm(bases, scalars) ==
    IF scalars = <<>> THEN Identity
    ELSE Add(Mul(Head(scalars), Head(bases)), msm(Tail(bases), Tail(scalars)))

(* Results of fallible calls are records [err, val]: err = "" on success.  *)
Ok(v) == [err |-> "", val |-> v]

Err(cause) == [err |-> cause, val |-> <<>>]

Running == [kind |-> "running", cause |-> "", vals |-> <<>>]

Passed == [kind |-> "ok", cause |-> "", vals |-> <<>>]

Panic(cause, vals) == [kind |-> "panic", cause |-> cause, vals |-> vals]

Pow2(e) == Pow(2, e, 1000)

----------------------------------------------------------------------------
(* Inputs.                                                                 *)

\* Domain exponents: every k the scalar field supports.
Ks == 0..TwoAdicity

\* Scalar-field elements used as witness values and evaluations.
Scalars == {0, 1, 5}

\* Trusted-setup secrets drawn by ParamsKZG::setup; none is a domain element.
TauSet == {2, 3, 6}

\* Bytes of the proof data that follows the commitments.
TailBytes == {0, 1}

RECURSIVE SeqsUpTo(_, _)
SeqsUpTo(S, n) ==
    IF n = 0 THEN {<<>>}
    ELSE LET shorter == SeqsUpTo(S, n - 1)
         IN  shorter \cup {Append(s, x) : s \in {t \in shorter : Len(t) = n - 1}, x \in S}

Tails == SeqsUpTo(TailBytes, MaxTail)

----------------------------------------------------------------------------
(* ParamsKZG::setup (main.rs:135).                                         *)

\* The generator of the size-2^kk domain: ROOT_OF_UNITY squared S - kk times.
Omega(kk) == Pow(RootOfUnity, Pow2(TwoAdicity - kk), Q)

\* L_i(tau), the i-th Lagrange basis polynomial of the domain at tau:
\* omega^i (tau^n - 1) / (n (tau - omega^i)).
Lagrange(kk, i, tau) ==
    LET n  == Pow2(kk)
        wi == Pow(Omega(kk), i, Q)
    IN  (wi * (Pow(tau, n, Q) + Q - 1) * InvFr(n * (tau + Q - wi))) % Q

\* setup asserts k <= Fr::S and returns g_lagrange = [L_i(tau)] G.
setup(kk, tau) ==
    IF kk > TwoAdicity THEN Err("assert k <= S")
    ELSE Ok([i \in 1..Pow2(kk) |-> Mul(Lagrange(kk, i - 1, tau), Generator)])

----------------------------------------------------------------------------
(* Transcript: Blake2bWrite::write_point and Blake2bRead::read_point.      *)

\* G1Affine::to_bytes: x and the sign (parity) of y; zeros for the identity.
to_bytes(pt) == IF pt = Identity THEN <<0, 0>> ELSE <<pt[1], pt[2] % 2>>

\* Variant: the reader takes the sign bit with the opposite convention.
from_bytes_flipped(chunk) ==
    LET x  == chunk[1]
        s  == chunk[2]
        ys == {y \in 0..(P - 1) : (y * y - x * x * x - CurveB) % P = 0 /\ y % 2 # s}
    IN  IF x = 0 /\ s = 0 THEN <<Identity>>
        ELSE IF x >= P \/ s > 1 \/ ys = {} THEN <<>>
        ELSE <<<<x, CHOOSE y \in ys : TRUE>>>>

\* G1Affine::from_bytes: <<pt>> for a valid encoding, <<>> for None.
from_bytes(chunk) ==
    LET x  == chunk[1]
        s  == chunk[2]
        ys == {y \in 0..(P - 1) : (y * y - x * x * x - CurveB) % P = 0 /\ y % 2 = s}
    IN  IF x = 0 /\ s = 0 THEN <<Identity>>
        ELSE IF x >= P \/ s > 1 \/ ys = {} THEN <<>>
        ELSE <<<<x, CHOOSE y \in ys : TRUE>>>>

\* write_point: common_point refuses the point at infinity; otherwise the
\* compressed point is appended to the buffer.
write_point(buf, pt) ==
    IF pt = Identity THEN Err("cannot write points at infinity to the transcript")
    ELSE Ok(buf \o to_bytes(pt))

\* read_point at cursor position pos (bytes already consumed): read_exact of
\* ReprLen bytes, from_bytes, common_point.
read_point(buf, pos) ==
    IF Len(buf) - pos < ReprLen THEN Err("UnexpectedEof")
    ELSE LET dec == from_bytes(SubSeq(buf, pos + 1, pos + ReprLen))
         IN  IF dec = <<>> THEN Err("invalid point encoding in proof")
             ELSE IF dec[1] = Identity
                  THEN Err("cannot write points at infinity to the transcript")
             ELSE Ok(dec[1])

\* The loop of extract_commitments (main.rs:40-43): `left` reads remain, acc is
\* the vector built so far.  `expect` turns the first Err into a panic.
RECURSIVE ReadLoop(_, _, _, _)
ReadLoop(buf, pos, left, acc) ==
    IF left = 0 THEN Ok(acc)
    ELSE LET r == read_point(buf, pos)
         IN  IF r.err # "" THEN Err(r.err)
             ELSE ReadLoop(buf, pos + ReprLen, left - 1, Append(acc, r.val))

RECURSIVE Reverse(_)
Reverse(sq) == IF sq = <<>> THEN <<>> ELSE Append(Reverse(Tail(sq)), Head(sq))

\* Variant: each commitment read is inserted at the front of the vector.
extract_commitments_rev(buf, n) ==
    LET r == ReadLoop(buf, 0, n, <<>>)
    IN  IF r.err # "" THEN r ELSE Ok(Reverse(r.val))

\* extract_commitments(proof, num_advice_columns): err # "" is the panic
\* "Failed to read commitment: <err>".
extract_commitments(buf, n) == ReadLoop(buf, 0, n, <<>>)

----------------------------------------------------------------------------
(* Witness to polynomial, commitment, conversion, comparison.              *)

\* domain.empty_lagrange() (main.rs:180): 2^kk zeros.
empty_lagrange(kk) == [i \in 1..Pow2(kk) |-> 0]

\* The loop of main.rs:181-183 from witness entry i on: poly[i] = val; indexing
\* past the end of poly panics.
RECURSIVE AssignLoop(_, _, _)
AssignLoop(pl, w, i) ==
    IF i > Len(w) THEN Ok(pl)
    ELSE IF i > Len(pl) THEN Err("index out of bounds")
    ELSE AssignLoop([pl EXCEPT ![i] = w[i]], w, i + 1)

\* Variant: the loop writes entry i of the witness one slot further.
MapWitness_Shifted(kk, w) == AssignLoop(empty_lagrange(kk), <<0>> \o w, 1)

\* main.rs:171-183: the witness written into an empty Lagrange polynomial.
MapWitness(kk, w) == AssignLoop(empty_lagrange(kk), w, 1)

\* BitvectorCommitmentCircuit::synthesize under the prover (main.rs:100-117):
\* assign_advice of row i for every bit; a row outside the rows of the column is
\* an error; the rows never assigned are zero.  All 2^kk rows are taken as
\* usable and no row is filled with a blinding value: the column the prover
\* commits to is the zero-padded witness, which is what the comparison of
\* main.rs:200 presupposes of the proving system.
synthesize(w, kk) ==
    IF Len(w) > Pow2(kk) THEN Err("NotEnoughRowsAvailable")
    ELSE Ok([i \in 1..Pow2(kk) |-> IF i <= Len(w) THEN w[i] ELSE 0])

\* ParamsKZG::commit_lagrange(engine, poly, blind): the blind is ignored by the
\* KZG scheme; the result is a Jacobian point whose Z is the MSM's choice z.
commit_lagrange(bases, evals, blind, z) ==
    IF Len(bases) < Len(evals) THEN Err("assert bases.len() >= size")
    ELSE Ok(Jacobian(msm(SubSeq(bases, 1, Len(evals)), evals), z))

Min(a, b) == IF a < b THEN a ELSE b

\* Variant: no length assertion, the MSM runs over the common prefix.
plain_kzg_com_unchecked(ck, evals) ==
    LET n == Min(Len(ck), Len(evals))
    IN  Ok(msm(SubSeq(ck, 1, n), SubSeq(evals, 1, n)))

\* plain_kzg_com(ck, evals) (main.rs:55-59).
plain_kzg_com(ck, evals) ==
    IF Len(evals) # Len(ck) THEN Err("assert_eq evals.len() == ck.lagranges.len()")
    ELSE Ok(msm(ck, evals))

\* G1Affine::from_xy(x, y): Some(point) iff the pair is on the curve.
from_xy(x, y) == IF is_on_curve(<<x, y>>) THEN <<<<x, y>>>> ELSE <<>>

\* Variant: only the x coordinates are compared.
assert_eq_x(left, right) ==
    IF left[1] = right[1] THEN Passed ELSE Panic("assert_eq", <<left, right>>)

\* assert_eq!(left, right) (main.rs:200): equality of affine points is equality
\* of the coordinate pairs; the panic message holds both values.
assert_eq(left, right) ==
    IF left = right THEN Passed ELSE Panic("assert_eq", <<left, right>>)

----------------------------------------------------------------------------
(* main (main.rs:120-201), one action per statement.                       *)

Witnesses(kk) == SeqsUpTo(Scalars, Pow2(kk) + 1)

Init ==
    /\ pc = "setup"
    /\ k \in Ks
    /\ bitvector \in Witnesses(k)
    /\ fresh_bitvector = bitvector
    /\ params = <<>>
    /\ points = <<>>
    /\ tail = <<>>
    /\ transcript = <<>>
    /\ proof = <<>>
    /\ num_advice_columns = 1
    /\ commitments = <<>>
    /\ halo2_commitment = <<>>
    /\ poly = <<>>
    /\ commitment = <<>>
    /\ plain_commitment = <<>>
    /\ outcome = Running

\* A panic: the process ends with the panic as its outcome.
Halt(o) == pc' = "done" /\ outcome' = o

\* main.rs:135  let params = ParamsKZG::setup(k, &mut OsRng)
Setup ==
    /\ pc = "setup"
    /\ \E tau \in TauSet :
         LET r == setup(k, tau)
         IN  IF r.err # ""
             THEN Halt(Panic(r.err, <<>>)) /\ UNCHANGED params
             ELSE params' = r.val /\ pc' = "keygen" /\ UNCHANGED outcome
    /\ UNCHANGED <<k, bitvector, fresh_bitvector, points, tail, transcript, proof,
                   num_advice_columns, commitments, halo2_commitment, poly,
                   commitment, plain_commitment>>

\* main.rs:138-139  keygen_vk, keygen_pk: the key-generation pass ignores the
\* advice assignments and reads params.
Keygen ==
    /\ pc = "keygen"
    /\ pc' = "create_proof"
    /\ UNCHANGED <<k, bitvector, fresh_bitvector, params, points, tail, transcript,
                   proof, num_advice_columns, commitments, halo2_commitment, poly,
                   commitment, plain_commitment, outcome>>

\* main.rs:142-153  create_proof(..).expect(..): the advice column is
\* synthesized and committed with params, its commitment is the first point
\* written to the transcript, and the rest of the proof follows.
CreateProof ==
    /\ pc = "create_proof"
    /\ \E z \in JacobianZ, t \in Tails :
         LET col == synthesize(bitvector, k)
             c   == commit_lagrange(params, col.val, 0, z)
             w   == write_point(<<>>, to_affine(c.val))
         IN  IF col.err # ""
             THEN Halt(Panic(col.err, <<>>)) /\ UNCHANGED <<points, tail, transcript>>
             ELSE IF c.err # ""
             THEN Halt(Panic(c.err, <<>>)) /\ UNCHANGED <<points, tail, transcript>>
             ELSE IF w.err # ""
             THEN Halt(Panic(w.err, <<>>)) /\ UNCHANGED <<points, tail, transcript>>
             ELSE /\ points' = <<to_affine(c.val)>>
                  /\ tail' = t
                  /\ transcript' = w.val \o t
                  /\ pc' = "finalize"
                  /\ UNCHANGED outcome
    /\ UNCHANGED <<k, bitvector, fresh_bitvector, params, proof, num_advice_columns,
                   commitments, halo2_commitment, poly, commitment, plain_commitment>>

\* main.rs:156  let proof = transcript.finalize()
Finalize ==
    /\ pc = "finalize"
    /\ proof' = transcript
    /\ pc' = "extract"
    /\ UNCHANGED <<k, bitvector, fresh_bitvector, params, points, tail, transcript,
                   num_advice_columns, commitments, halo2_commitment, poly,
                   commitment, plain_commitment, outcome>>

\* main.rs:160-161  extract_commitments(&proof, num_advice_columns)
Extract ==
    /\ pc = "extract"
    /\ LET r == extract_commitments(proof, num_advice_columns)
       IN  IF r.err # ""
           THEN Halt(Panic(r.err, <<>>)) /\ UNCHANGED commitments
           ELSE commitments' = r.val /\ pc' = "index" /\ UNCHANGED outcome
    /\ UNCHANGED <<k, bitvector, fresh_bitvector, params, points, tail, transcript,
                   proof, num_advice_columns, halo2_commitment, poly, commitment,
                   plain_commitment>>

\* main.rs:164  let halo2_commitment = commitments[0]
TakeFirst ==
    /\ pc = "index"
    /\ IF commitments = <<>>
       THEN Halt(Panic("index out of bounds", <<>>)) /\ UNCHANGED halo2_commitment
       ELSE halo2_commitment' = commitments[1] /\ pc' = "map" /\ UNCHANGED outcome
    /\ UNCHANGED <<k, bitvector, fresh_bitvector, params, points, tail, transcript,
                   proof, num_advice_columns, commitments, poly, commitment,
                   plain_commitment>>

\* main.rs:171-183  the witness written into an empty Lagrange polynomial
MapPoly ==
    /\ pc = "map"
    /\ LET r == MapWitness(k, fresh_bitvector)
       IN  IF r.err # ""
           THEN Halt(Panic(r.err, <<>>)) /\ UNCHANGED poly
           ELSE poly' = r.val /\ pc' = "commit" /\ UNCHANGED outcome
    /\ UNCHANGED <<k, bitvector, fresh_bitvector, params, points, tail, transcript,
                   proof, num_advice_columns, commitments, halo2_commitment,
                   commitment, plain_commitment>>

\* Variant: the parameters are set up again before the direct commitment.
CommitLagrange_Regen ==
    /\ pc = "commit"
    /\ \E z \in JacobianZ, tau \in TauSet :
         LET fresh == setup(k, tau).val
             r     == commit_lagrange(fresh, poly, 0, z)
         IN  /\ params' = fresh
             /\ IF r.err # ""
                THEN Halt(Panic(r.err, <<>>)) /\ UNCHANGED commitment
                ELSE commitment' = r.val /\ pc' = "from_xy" /\ UNCHANGED outcome
    /\ UNCHANGED <<k, bitvector, fresh_bitvector, points, tail, transcript, proof,
                   num_advice_columns, commitments, halo2_commitment, poly,
                   plain_commitment>>

\* main.rs:188-193  params.commit_lagrange(&engine, &poly, Blind(Fr::zero()))
CommitLagrange ==
    /\ pc = "commit"
    /\ \E z \in JacobianZ :
         LET r == commit_lagrange(params, poly, 0, z)
         IN  IF r.err # ""
             THEN Halt(Panic(r.err, <<>>)) /\ UNCHANGED commitment
             ELSE commitment' = r.val /\ pc' = "from_xy" /\ UNCHANGED outcome
    /\ UNCHANGED <<k, bitvector, fresh_bitvector, params, points, tail, transcript,
                   proof, num_advice_columns, commitments, halo2_commitment, poly,
                   plain_commitment>>

\* main.rs:195  G1Affine::from_xy(commitment.x, commitment.y).unwrap()
FromXY ==
    /\ pc = "from_xy"
    /\ LET r == from_xy(commitment[1], commitment[2])
       IN  IF r = <<>>
           THEN Halt(Panic("unwrap on None", <<>>)) /\ UNCHANGED plain_commitment
           ELSE plain_commitment' = r[1] /\ pc' = "compare" /\ UNCHANGED outcome
    /\ UNCHANGED <<k, bitvector, fresh_bitvector, params, points, tail, transcript,
                   proof, num_advice_columns, commitments, halo2_commitment, poly,
                   commitment>>

\* main.rs:200  assert_eq!(halo2_commitment, plain_commitment)
Compare ==
    /\ pc = "compare"
    /\ Halt(assert_eq(halo2_commitment, plain_commitment))
    /\ UNCHANGED <<k, bitvector, fresh_bitvector, params, points, tail, transcript,
                   proof, num_advice_columns, commitments, halo2_commitment, poly,
                   commitment, plain_commitment>>

Next ==
    \/ Setup
    \/ Keygen
    \/ CreateProof
    \/ Finalize
    \/ Extract
    \/ TakeFirst
    \/ MapPoly
    \/ CommitLagrange
    \/ FromXY
    \/ Compare

Spec == Init /\ [][Next]_vars

----------------------------------------------------------------------------
(* The witness-to-polynomial mapping on its own: every k and every witness *)
(* of length up to 2^k + 1.                                                *)

InitMap ==
    /\ pc = "map"
    /\ k \in Ks
    /\ fresh_bitvector \in Witnesses(k)
    /\ bitvector = fresh_bitvector
    /\ params = <<>>
    /\ points = <<>>
    /\ tail = <<>>
    /\ transcript = <<>>
    /\ proof = <<>>
    /\ num_advice_columns = 1
    /\ commitments = <<>>
    /\ halo2_commitment = <<>>
    /\ poly = <<>>
    /\ commitment = <<>>
    /\ plain_commitment = <<>>
    /\ outcome = Running

NextMap == MapPoly

SpecMap == InitMap /\ [][NextMap]_vars

----------------------------------------------------------------------------
(* plain_kzg_com on its own: keys and evaluation vectors of every length   *)
(* up to MaxLen.                                                           *)

\* Basis points of the keys tried: the identity and two other points.
KeyPoints == {Identity, G1[2], G1[8]}

InitCommit ==
    /\ pc = "plain_kzg_com"
    /\ k = 0
    /\ params \in SeqsUpTo(KeyPoints, MaxLen)
    /\ poly \in SeqsUpTo(Scalars, MaxLen)
    /\ bitvector = <<>>
    /\ fresh_bitvector = <<>>
    /\ points = <<>>
    /\ tail = <<>>
    /\ transcript = <<>>
    /\ proof = <<>>
    /\ num_advice_columns = 1
    /\ commitments = <<>>
    /\ halo2_commitment = <<>>
    /\ commitment = <<>>
    /\ plain_commitment = <<>>
    /\ outcome = Running

\* main.rs:55-59  plain_kzg_com(&ck, &evals) with ck.lagranges = params
PlainKzgCom ==
    /\ pc = "plain_kzg_com"
    /\ LET r == plain_kzg_com(params, poly)
       IN  IF r.err # ""
           THEN Halt(Panic(r.err, <<>>)) /\ UNCHANGED plain_commitment
           ELSE plain_commitment' = r.val /\ Halt(Passed)
    /\ UNCHANGED <<k, bitvector, fresh_bitvector, params, points, tail, transcript,
                   proof, num_advice_columns, commitments, halo2_commitment, poly,
                   commitment>>

NextCommit == PlainKzgCom

SpecCommit == InitCommit /\ [][NextCommit]_vars

----------------------------------------------------------------------------
(* The transcript on its own: `points` are appended in write mode, `tail`  *)
(* follows them, the buffer is finalized and read back with a declared     *)
(* count of num_advice_columns.                                            *)

\* Points appended: the identity, a point of even y and a point of odd y.
CodecPoints == {Identity, G1[2], G1[8]}

InitCodec ==
    /\ pc = "write"
    /\ k = 0
    /\ points \in SeqsUpTo(CodecPoints, MaxPoints)
    /\ tail \in Tails
    /\ num_advice_columns \in 0..(MaxPoints + 1)
    /\ bitvector = <<>>
    /\ fresh_bitvector = <<>>
    /\ params = <<>>
    /\ transcript = <<>>
    /\ proof = <<>>
    /\ commitments = <<>>
    /\ halo2_commitment = <<>>
    /\ poly = <<>>
    /\ commitment = <<>>
    /\ plain_commitment = <<>>
    /\ outcome = Running

\* The number of points written so far.
Written == Len(transcript) \div ReprLen

\* transcript.write_point(point) for the next point (inside create_proof,
\* main.rs:145-153, whose Err is a panic by expect).
CodecWritePoint ==
    /\ pc = "write"
    /\ Written < Len(points)
    /\ LET w == write_point(transcript, points[Written + 1])
       IN  IF w.err # ""
           THEN Halt(Panic(w.err, <<>>)) /\ UNCHANGED transcript
           ELSE transcript' = w.val /\ UNCHANGED <<pc, outcome>>
    /\ UNCHANGED <<k, bitvector, fresh_bitvector, params, points, tail, proof,
                   num_advice_columns, commitments, halo2_commitment, poly,
                   commitment, plain_commitment>>

\* The rest of the proof is written after the points.
CodecWriteTail ==
    /\ pc = "write"
    /\ Written = Len(points)
    /\ transcript' = transcript \o tail
    /\ pc' = "finalize"
    /\ UNCHANGED <<k, bitvector, fresh_bitvector, params, points, tail, proof,
                   num_advice_columns, commitments, halo2_commitment, poly,
                   commitment, plain_commitment, outcome>>

NextCodec ==
    \/ CodecWritePoint
    \/ CodecWriteTail
    \/ Finalize
    \/ Extract

SpecCodec == InitCodec /\ [][NextCodec]_vars

----------------------------------------------------------------------------
(* Properties.                                                             *)

\* The run of main has ended.
Done == pc = "done"

\* The transcript harness has ended: extraction returned or a call panicked.
CodecEnded == pc \in {"index", "done"}

\* Every point of `points` and the tail were appended, the buffer was finalized
\* and extraction has run.
AllAppended ==
    /\ Len(transcript) = ReprLen * Len(points) + Len(tail)
    /\ proof = transcript
    /\ CodecEnded

NoIdentity == \A i \in 1..Len(points) : points[i] # Identity

\* The sum of evals[i] * bases[i] computed on discrete logarithms.
RECURSIVE DLogSum(_, _, _)
DLogSum(bases, evals, i) ==
    IF i = 0 THEN 0 ELSE (evals[i] * DLog(bases[i]) + DLogSum(bases, evals, i - 1)) % Q

(* C1: for every k, every key and every witness of length <= 2^k (the      *)
(* all-zero witness and the witness of length 2^k included), the direct    *)
(* commitment equals the commitment extracted at index 0 from the proof    *)
(* made over the same witness and key, and the run passes.                 *)
C1_Equivalence ==
    (Done /\ Len(bitvector) <= Pow2(k))
        => (outcome = Passed /\ halo2_commitment = plain_commitment)

C3_Mapping ==
    [][(pc = "map" /\ Len(fresh_bitvector) <= Pow2(k))
          => /\ pc' = "commit"
             /\ Len(poly') = Pow2(k)
             /\ \A i \in 1..Pow2(k) :
                   poly'[i] = IF i <= Len(fresh_bitvector) THEN fresh_bitvector[i] ELSE 0
             /\ fresh_bitvector' = fresh_bitvector]_vars

C3_Witness ==
    /\ pc = "commit"
    /\ k = 2
    /\ fresh_bitvector = <<1, 0, 1>>
    /\ poly = <<1, 0, 1, 0>>

(* C4: the mapping succeeds for a witness of length exactly 2^k, and for a *)
(* longer witness it returns the typed error DomainOverflow to the caller, *)
(* never a truncated polynomial.                                           *)
C4_LengthBoundary ==
    /\ (pc # "map" /\ Len(fresh_bitvector) = Pow2(k))
         => (pc = "commit" /\ poly = fresh_bitvector)
    /\ (pc # "map" /\ Len(fresh_bitvector) > Pow2(k))
         => (outcome.kind = "error" /\ outcome.cause = "DomainOverflow" /\ poly = <<>>)

(* C5: commit fails on a key and an evaluation vector of different lengths *)
(* and produces no commitment; on equal lengths it returns the sum of      *)
(* evaluations[i] * basis[i], with no blinding term.                       *)
C5_Commit ==
    Done =>
        IF Len(poly) # Len(params)
        THEN outcome.kind = "panic" /\ plain_commitment = <<>>
        ELSE outcome = Passed
             /\ plain_commitment = G1[DLogSum(params, poly, Len(poly)) + 1]

C5_Witness ==
    /\ Done
    /\ Len(params) = 2
    /\ Len(poly) = 2
    /\ plain_commitment \notin {<<>>, Identity}

C7_OrderMirrorsAppend ==
    (AllAppended /\ num_advice_columns <= Len(points))
        => (pc = "index" /\ commitments = SubSeq(points, 1, num_advice_columns))

C7_Witness ==
    /\ pc = "index"
    /\ Len(points) = 2
    /\ points[1] # points[2]
    /\ tail # <<>>
    /\ num_advice_columns = 1
    /\ commitments = <<points[1]>>

(* C8: a read that finds fewer than N points left, or a chunk that is no   *)
(* curve point, returns a typed error (TranscriptUnderflow or              *)
(* PointDecodeError) to the caller and does not abort the process.         *)
C8_TypedReadErrors ==
    (AllAppended /\ pc = "done")
        => /\ outcome.kind = "error"
           /\ outcome.cause \in {"TranscriptUnderflow", "PointDecodeError"}

(* C9: the conversion and comparison of the direct commitment end in pass  *)
(* or mismatch for every commitment value.                                 *)
C9_ConversionTotal ==
    (Done /\ commitment # <<>>)
        => (outcome = Passed \/ outcome.cause = "assert_eq")

(* C10: the key is created once by setup; from then on its length is 2^k   *)
(* and no step changes it.                                                 *)
C10_KeyFixed ==
    /\ [](pc # "setup" => Len(params) = Pow2(k))
    /\ [][pc # "setup" => params' = params]_vars

C10_Witness ==
    /\ Done
    /\ outcome = Passed
    /\ Len(params) = 4

====
